---- MODULE Spec2Model ----
(***************************************************************************)
(* Model of HW2/reddit_crawler_and_calculates.py: the text normalizer      *)
(* clean_text, the search step that writes reddit_results.xlsx, the        *)
(* inverted index over the top-K most common words, the TF-IDF scoring of  *)
(* a query, and the main script that runs the three steps in order.        *)
(*                                                                         *)
(* A text is a sequence of characters; a character is a one-element label. *)
(* "I_DOT" stands for U+0130 (capital I with dot above) and "DOT_ABOVE"    *)
(* for U+0307 (combining dot above), the two characters str.lower() turns  *)
(* U+0130 into.  Scores are fixed-point numbers in thousandths.            *)
(***************************************************************************)
EXTENDS Integers, Sequences, FiniteSets, TLC

VARIABLES
    pc,            \* position of the main script: "search", "index", "tfidf", "done"
    api,           \* what the Reddit search does in this run: [raises, posts]
    query,         \* the query text handed to calculate_tfidf
    top_n,         \* the n of word_counts.most_common(n)
    results_file,  \* reddit_results.xlsx: [exists, rows]
    prior_file,    \* reddit_results.xlsx as it was before the run
    index_file,    \* word_post_locations.xlsx: [exists, rows]
    common_words,  \* the most_common(n) list of the last index step
    tfidf_state,   \* the fitted vectorizer of the last TF-IDF step: [fitted, terms, idf, matrix]
    tfidf_out,     \* the lines calculate_tfidf printed, one per query term
    raised,        \* per step: did the step function raise
    runs,          \* per step: how often it ran
    log,           \* the messages printed so far
    cpc,           \* position of the normalizer harness: "idle", "in", "once", "twice"
    text_in,       \* the text handed to clean_text
    text_once,     \* clean_text(text_in)
    text_twice     \* clean_text(clean_text(text_in))

vars == <<pc, api, query, top_n, results_file, prior_file, index_file, common_words,
          tfidf_state, tfidf_out, raised, runs, log, cpc, text_in, text_once, text_twice>>

pipeline_vars == <<pc, api, query, top_n, results_file, prior_file, index_file,
                   common_words, tfidf_state, tfidf_out, raised, runs, log>>

clean_vars == <<cpc, text_in, text_once, text_twice>>

----------------------------------------------------------------------------
(* Bounds of the model *)

\* longest text the normalizer harness draws
MaxLen == 3

\* most posts a search returns
MaxDocs == 2

----------------------------------------------------------------------------
(* Characters: the classes re's \w and \s and str.lower() distinguish *)

LowerLetters == {"a", "b", "c", "d", "e", "f", "g", "h", "i", "j", "l", "m", "n",
                 "o", "p", "r", "s", "t", "u", "w", "y"}

UpperLetters == {"A", "C", "F", "T", "I_DOT"}

Digits == {"5"}

\* \w : letters, digits, underscore.  U+0307 is a combining mark: not \w.
IsWordChar(c) == c \in LowerLetters \cup UpperLetters \cup Digits \cup {"_"}

\* \s
IsSpace(c) == c \in {" ", "NL"}

\* str.lower() of one character; U+0130 lowers to the two characters i, U+0307
LowerChar(c) ==
    CASE c = "A" -> <<"a">>
      [] c = "C" -> <<"c">>
      [] c = "F" -> <<"f">>
      [] c = "T" -> <<"t">>
      [] c = "I_DOT" -> <<"i", "DOT_ABOVE">>
      [] OTHER -> <<c>>

RECURSIVE lower(_)
lower(text) ==
    IF text = <<>> THEN <<>> ELSE LowerChar(Head(text)) \o lower(Tail(text))

\* re.sub(r"[^\w\s]", "", text)
StripNonWord(text) == SelectSeq(text, LAMBDA c : IsWordChar(c) \/ IsSpace(c))

\* str.split(): the maximal runs of non-whitespace characters
RECURSIVE SplitFrom(_, _, _)
SplitFrom(text, cur, acc) ==
    IF text = <<>>
    THEN IF cur = <<>> THEN acc ELSE Append(acc, cur)
    ELSE IF IsSpace(Head(text))
         THEN SplitFrom(Tail(text), <<>>, IF cur = <<>> THEN acc ELSE Append(acc, cur))
         ELSE SplitFrom(Tail(text), Append(cur, Head(text)), acc)

split(text) == SplitFrom(text, <<>>, <<>>)

\* " ".join(words)
RECURSIVE join(_)
join(words) ==
    IF words = <<>> THEN <<>>
    ELSE IF Len(words) = 1 THEN words[1]
    ELSE words[1] \o <<" ">> \o join(Tail(words))

STOPWORDS == {
    <<"a","n","d">>, <<"o","r">>, <<"t","h","e">>, <<"i","s">>, <<"i","n">>, <<"t","o">>,
    <<"a">>, <<"o","f">>, <<"o","n">>, <<"f","o","r">>, <<"w","i","t","h">>, <<"i","t">>,
    <<"a","s">>, <<"a","t">>, <<"t","h","i","s">>, <<"t","h","a","t">>,
    <<"a","n">>, <<"b","e">>, <<"a","r","e">>, <<"b","y">>, <<"w","a","s">>,
    <<"w","e","r","e">>, <<"f","r","o","m">>, <<"h","a","s">>, <<"h","a","v","e">>,
    <<"h","a","d">>, <<"b","u","t">>, <<"n","o","t">>, <<"y","o","u">>, <<"w","e">>,
    <<"t","h","e","y">>, <<"h","e">>, <<"s","h","e">>, <<"i">>, <<"m","e">>, <<"m","y">> }

clean_text(text) ==
    LET stripped == StripNonWord(text)
        lowered == lower(stripped)
        words == split(lowered)
        filtered_words == SelectSeq(words, LAMBDA w : w \notin STOPWORDS)
    IN  join(filtered_words)

----------------------------------------------------------------------------
(* reddit_results.xlsx: written by DataFrame.to_excel, read by pd.read_excel *)

Doc(title, body) == [Title |-> title, Body |-> body]

NoFile == [exists |-> FALSE, rows |-> <<>>]

\* pd.read_excel of one cell: an empty cell comes back as NaN, not as ""
ReadCell(v) == IF v = <<>> THEN [isna |-> TRUE, val |-> <<>>] ELSE [isna |-> FALSE, val |-> v]

\* pd.read_excel(input_file): the rows of the sheet, in order
read_excel(file) ==
    [i \in 1..Len(file.rows) |->
        [Title |-> ReadCell(file.rows[i].Title), Body |-> ReadCell(file.rows[i].Body)]]

\* str(cell) and Series.astype(str): NaN becomes the text "nan"
to_str(cell) == IF cell.isna THEN <<"n", "a", "n">> ELSE cell.val

\* title + " " + body without the body: what the row's content would be if
\* only the title were indexed
ContentTitleOnly(row) == to_str(row.Title)

\* content = title + " " + body of one row
Content(row) == to_str(row.Title) \o <<" ">> \o to_str(row.Body)

\* " ".join(df["Title"].astype(str) + " " + df["Body"].astype(str))
all_text(df) ==
    join([i \in 1..Len(df) |-> to_str(df[i].Title) \o <<" ">> \o to_str(df[i].Body)])

----------------------------------------------------------------------------
(* build_inverse_index_with_locations *)

EmptyIndex == [w \in {} |-> <<>>]

\* an append of post_index itself, the row's 0-based label
AddPostingZeroBased(index, word, post_id) ==
    [w \in (DOMAIN index) \cup {word} |->
        IF w = word
        THEN IF word \in DOMAIN index THEN Append(index[word], post_id - 1) ELSE <<post_id - 1>>
        ELSE index[w]]

\* inverted_index[word].append(post_index + 1), creating the list when new
AddPosting(index, word, post_id) ==
    [w \in (DOMAIN index) \cup {word} |->
        IF w = word
        THEN IF word \in DOMAIN index THEN Append(index[word], post_id) ELSE <<post_id>>
        ELSE index[w]]

RECURSIVE AddWords(_, _, _)
AddWords(index, words, post_id) ==
    IF words = <<>> THEN index
    ELSE AddWords(AddPosting(index, Head(words), post_id), Tail(words), post_id)

\* the loop over df.iterrows(), rows i..Len(df)
RECURSIVE IndexRows(_, _, _)
IndexRows(index, df, i) ==
    IF i > Len(df) THEN index
    ELSE IndexRows(AddWords(index, split(clean_text(Content(df[i]))), i), df, i + 1)

inverted_index(df) == IndexRows(EmptyIndex, df, 1)

\* Counter(words): the distinct words in order of first occurrence, with counts
RECURSIVE Counter(_)
Counter(words) ==
    IF words = <<>> THEN <<>>
    ELSE LET w == words[Len(words)]
             rest == Counter(SubSeq(words, 1, Len(words) - 1))
         IN  IF \E k \in 1..Len(rest) : rest[k].word = w
             THEN [k \in 1..Len(rest) |->
                      IF rest[k].word = w
                      THEN [word |-> w, count |-> rest[k].count + 1]
                      ELSE rest[k]]
             ELSE Append(rest, [word |-> w, count |-> 1])

\* sorted(items, key=count, reverse=True): descending, equal counts keep their order
RECURSIVE SortedByCount(_)
SortedByCount(items) ==
    IF items = <<>> THEN <<>>
    ELSE LET x == items[Len(items)]
             s == SortedByCount(SubSeq(items, 1, Len(items) - 1))
             \* x goes after every entry of s whose count is >= its own
             p == Cardinality({k \in 1..Len(s) : s[k].count >= x.count})
         IN  SubSeq(s, 1, p) \o <<x>> \o SubSeq(s, p + 1, Len(s))

\* a most_common that puts the later of two equally frequent words first
RECURSIVE SortedByCountUnstable(_)
SortedByCountUnstable(items) ==
    IF items = <<>> THEN <<>>
    ELSE LET x == items[Len(items)]
             s == SortedByCountUnstable(SubSeq(items, 1, Len(items) - 1))
             p == Cardinality({k \in 1..Len(s) : s[k].count > x.count})
         IN  SubSeq(s, 1, p) \o <<x>> \o SubSeq(s, p + 1, Len(s))

most_common_unstable(counts, n) ==
    LET s == SortedByCountUnstable(counts)
    IN  SubSeq(s, 1, IF n < Len(s) THEN n ELSE Len(s))

\* Counter.most_common(n) = heapq.nlargest(n, items, key=count)
most_common(counts, n) ==
    LET s == SortedByCount(counts)
    IN  SubSeq(s, 1, IF n < Len(s) THEN n ELSE Len(s))

\* sorted(set(post_list))
RECURSIVE SortedSet(_)
SortedSet(S) ==
    IF S = {} THEN <<>>
    ELSE LET m == CHOOSE x \in S : \A y \in S : x <= y
         IN  <<m>> \o SortedSet(S \ {m})

Range(seq) == {seq[k] : k \in 1..Len(seq)}

\* the loop over common_words, rows k..Len(common)
RECURSIVE WordPostData(_, _, _)
WordPostData(common, index, k) ==
    IF k > Len(common) THEN <<>>
    ELSE LET word == common[k].word
         IN  (IF word \in DOMAIN index
              THEN <<[word |-> word, posts |-> SortedSet(Range(index[word]))]>>
              ELSE <<>>) \o WordPostData(common, index, k + 1)

\* the step function: [raised, common, rows, log]
build_inverse_index_with_locations(file, n) ==
    IF ~file.exists
    THEN [raised |-> TRUE, common |-> <<>>, rows |-> <<>>, written |-> FALSE,
          log |-> <<"An error occurred while building the inverted index">>]
    ELSE LET df == read_excel(file)
             index == inverted_index(df)
             cleaned_text == clean_text(all_text(df))
             word_counts == Counter(split(cleaned_text))
             common == most_common(word_counts, n)
         IN  [raised |-> FALSE, common |-> common,
              rows |-> WordPostData(common, index, 1), written |-> TRUE,
              log |-> <<"Inverted Index with Word Locations saved">>]

----------------------------------------------------------------------------
(* calculate_tfidf: TfidfVectorizer with its defaults *)

\* the default token_pattern (?u)\b\w\w+\b : the maximal runs of word
\* characters that are at least two characters long
RECURSIVE TokensFrom(_, _, _)
TokensFrom(text, cur, acc) ==
    LET flush == IF Len(cur) >= 2 THEN Append(acc, cur) ELSE acc
    IN  IF text = <<>> THEN flush
        ELSE IF IsWordChar(Head(text))
             THEN TokensFrom(Tail(text), Append(cur, Head(text)), acc)
             ELSE TokensFrom(Tail(text), <<>>, flush)

\* the analyzer: lowercase (the default), then the token pattern
analyze(text) == TokensFrom(lower(text), <<>>, <<>>)

RECURSIVE SumSeq(_)
SumSeq(seq) == IF seq = <<>> THEN 0 ELSE Head(seq) + SumSeq(Tail(seq))

RECURSIVE SumSet(_, _)
SumSet(S, f) ==
    IF S = {} THEN 0
    ELSE LET x == CHOOSE y \in S : TRUE IN f[x] + SumSet(S \ {x}, f)

\* the largest r with r * r <= x, by bisection over lo..hi
RECURSIVE SqrtBetween(_, _, _)
SqrtBetween(x, lo, hi) ==
    IF lo >= hi THEN lo
    ELSE LET mid == (lo + hi + 1) \div 2
         IN  IF mid * mid <= x THEN SqrtBetween(x, mid, hi) ELSE SqrtBetween(x, lo, mid - 1)

ISqrt(x) == SqrtBetween(x, 0, 40000)

\* np.log(k) in thousandths, k = 1..16
LnMilli == <<0, 693, 1099, 1386, 1609, 1792, 1946, 2079, 2197, 2303, 2398, 2485,
             2565, 2639, 2708, 2773>>

\* an idf with the ratio upside down: log((1 + df) / (1 + n)) + 1
idf_inverted(n_samples, df) == LnMilli[1 + df] - LnMilli[1 + n_samples] + 1000

\* smooth_idf: idf = log((1 + n) / (1 + df)) + 1, in thousandths
idf(n_samples, df) == LnMilli[1 + n_samples] - LnMilli[1 + df] + 1000

\* tf: how often the term occurs among the tokens of one document
Count(tokens, term) == Cardinality({k \in 1..Len(tokens) : tokens[k] = term})

\* vectorizer.fit_transform(cleaned_content): [terms, idf, matrix]; the matrix
\* holds tf * idf, each row divided by its Euclidean norm (norm="l2")
fit_transform(cleaned_content) ==
    LET n == Len(cleaned_content)
        tokens == [i \in 1..n |-> analyze(cleaned_content[i])]
        terms == UNION {Range(tokens[i]) : i \in 1..n}
        df == [t \in terms |-> Cardinality({i \in 1..n : Count(tokens[i], t) > 0})]
        idf_ == [t \in terms |-> idf(n, df[t])]
        raw == [i \in 1..n |-> [t \in terms |-> Count(tokens[i], t) * idf_[t]]]
        norm == [i \in 1..n |-> ISqrt(SumSet(terms, [t \in terms |-> raw[i][t] * raw[i][t]]))]
    IN  [terms |-> terms, idf |-> idf_,
         matrix |-> [i \in 1..n |-> [t \in terms |->
                        IF norm[i] = 0 THEN 0 ELSE (raw[i][t] * 1000) \div norm[i]]]]

\* tfidf_matrix[:, term_index].toarray().sum()
ColumnSum(matrix, term) == SumSeq([i \in 1..Len(matrix) |-> matrix[i][term]])

\* the loop over query_terms: one printed line per term
ScoreTerms(fitted, query_terms) ==
    [j \in 1..Len(query_terms) |->
        IF query_terms[j] \in fitted.terms
        THEN [term |-> query_terms[j], found |-> TRUE,
              score |-> ColumnSum(fitted.matrix, query_terms[j])]
        ELSE [term |-> query_terms[j], found |-> FALSE]]

NotFitted == [fitted |-> FALSE, terms |-> {}, idf |-> <<>>, matrix |-> <<>>]

\* the step function: [raised, state, out, log]
calculate_tfidf(file, q) ==
    IF ~file.exists
    THEN [raised |-> TRUE, state |-> NotFitted, out |-> <<>>,
          log |-> <<"An error occurred while calculating TF-IDF">>]
    ELSE LET df == read_excel(file)
             cleaned_content == [i \in 1..Len(df) |-> clean_text(Content(df[i]))]
             fitted == fit_transform(cleaned_content)
         IN  IF fitted.terms = {}
             \* ValueError: empty vocabulary; perhaps the documents only contain stop words
             THEN [raised |-> TRUE, state |-> NotFitted, out |-> <<>>,
                   log |-> <<"An error occurred while calculating TF-IDF">>]
             ELSE [raised |-> FALSE,
                   state |-> [fitted |-> TRUE, terms |-> fitted.terms, idf |-> fitted.idf,
                              matrix |-> fitted.matrix],
                   out |-> ScoreTerms(fitted, split(clean_text(q))),
                   log |-> <<"TF-IDF Scores for Query Terms:">>]

----------------------------------------------------------------------------
(* search_reddit_to_excel and the main script *)

\* search without the `if data:` test: an empty result sheet is written too
search_always_writes(a, file) ==
    IF a.raises
    THEN [raised |-> TRUE, file |-> file, log |-> <<"Searching Reddit", "An error occurred">>]
    ELSE [raised |-> FALSE, file |-> [exists |-> TRUE, rows |-> a.posts],
          log |-> <<"Searching Reddit", "Results saved">>]

\* the step function: [raised, file, log]
search_reddit_to_excel(a, file) ==
    IF a.raises
    THEN [raised |-> TRUE, file |-> file, log |-> <<"Searching Reddit", "An error occurred">>]
    ELSE IF a.posts # <<>>
         THEN [raised |-> FALSE, file |-> [exists |-> TRUE, rows |-> a.posts],
               log |-> <<"Searching Reddit", "Results saved">>]
         ELSE [raised |-> FALSE, file |-> file,
               log |-> <<"Searching Reddit", "No results found">>]

\* words used by the inputs
W_cats == <<"c", "a", "t", "s">>
W_dogs == <<"d", "o", "g", "s">>
W_funny == <<"f", "u", "n", "n", "y">>
W_jumping == <<"j", "u", "m", "p", "i", "n", "g">>
W_running == <<"r", "u", "n", "n", "i", "n", "g">>
W_playing == <<"p", "l", "a", "y", "i", "n", "g">>
W_and == <<"a", "n", "d">>
W_nan == <<"n", "a", "n">>
SP == <<" ">>

\* the posts a search may return
DocPool == {
    Doc(W_cats, <<>>),                                          \* a link post: no body
    Doc(<<"C", "a", "t", "s", "!">>, W_cats \o SP \o W_dogs),
    Doc(<<"T", "h", "e">>, <<"a">>),                            \* stopwords only
    Doc(<<"b">> \o SP \o W_dogs, W_funny) }

RECURSIVE SeqsUpTo(_, _)
SeqsUpTo(S, n) ==
    IF n = 0 THEN {<<>>}
    ELSE LET shorter == SeqsUpTo(S, n - 1)
         IN  shorter \cup {Append(t, x) : t \in {u \in shorter : Len(u) = n - 1}, x \in S}

\* the corpus doc1 = "funny cats jumping", doc2 = "funny dogs running",
\* doc3 = "cats and dogs playing", each text cut into title and body after
\* its first `cut` words
ExampleWords == << <<W_funny, W_cats, W_jumping>>, <<W_funny, W_dogs, W_running>>,
                   <<W_cats, W_and, W_dogs, W_playing>> >>

ExampleCorpus(cut) ==
    [i \in 1..3 |->
        LET ws == ExampleWords[i]
            c == IF cut < Len(ws) THEN cut ELSE Len(ws)
        IN  Doc(join(SubSeq(ws, 1, c)), join(SubSeq(ws, c + 1, Len(ws))))]

ExampleCuts == {1, 2, 4}

PriorFiles ==
    {NoFile, [exists |-> TRUE, rows |-> <<>>]}
        \cup {[exists |-> TRUE, rows |-> ExampleCorpus(c)] : c \in ExampleCuts}

Queries == { <<"F", "u", "n", "n", "y">> \o SP \o W_cats,
             <<"T", "h", "e">> \o SP \o <<"b">> \o SP \o W_dogs,
             W_nan \o SP \o W_playing }

\* the n of most_common(n) in the script
TopK == 15

TopNs == {2, TopK}

Steps == {"search", "index", "tfidf"}

Init ==
    /\ pc = "search"
    /\ api \in {[raises |-> TRUE, posts |-> <<>>]}
                \cup {[raises |-> FALSE, posts |-> p] : p \in SeqsUpTo(DocPool, MaxDocs)}
    /\ query \in Queries
    /\ top_n \in TopNs
    /\ prior_file \in PriorFiles
    /\ results_file = prior_file
    /\ index_file = NoFile
    /\ common_words = <<>>
    /\ tfidf_state = NotFitted
    /\ tfidf_out = <<>>
    /\ raised = [s \in Steps |-> FALSE]
    /\ runs = [s \in Steps |-> 0]
    /\ log = <<>>
    /\ cpc = "idle"
    /\ text_in = <<>>
    /\ text_once = <<>>
    /\ text_twice = <<>>

\* main, step 1: try: search_reddit_to_excel(...) except Exception: print
SearchStep ==
    /\ pc = "search"
    /\ LET r == search_reddit_to_excel(api, results_file)
       IN  /\ results_file' = r.file
           /\ raised' = [raised EXCEPT !["search"] = r.raised]
           /\ log' = log \o r.log
                         \o (IF r.raised THEN <<"Error during Reddit search">> ELSE <<>>)
    /\ runs' = [runs EXCEPT !["search"] = @ + 1]
    /\ pc' = "index"
    /\ UNCHANGED <<api, query, top_n, prior_file, index_file, common_words,
                   tfidf_state, tfidf_out>>
    /\ UNCHANGED clean_vars

\* main, step 2: try: build_inverse_index_with_locations() except Exception: print
IndexStep ==
    /\ pc = "index"
    /\ LET r == build_inverse_index_with_locations(results_file, top_n)
       IN  /\ index_file' = IF r.written THEN [exists |-> TRUE, rows |-> r.rows] ELSE index_file
           /\ common_words' = r.common
           /\ raised' = [raised EXCEPT !["index"] = r.raised]
           /\ log' = log \o r.log
                         \o (IF r.raised THEN <<"Error during inverted index creation">> ELSE <<>>)
    /\ runs' = [runs EXCEPT !["index"] = @ + 1]
    /\ pc' = "tfidf"
    /\ UNCHANGED <<api, query, top_n, prior_file, results_file, tfidf_state, tfidf_out>>
    /\ UNCHANGED clean_vars

\* main, step 3: try: calculate_tfidf(query=...) except Exception: print
TfidfStep ==
    /\ pc = "tfidf"
    /\ LET r == calculate_tfidf(results_file, query)
       IN  /\ tfidf_state' = r.state
           /\ tfidf_out' = r.out
           /\ raised' = [raised EXCEPT !["tfidf"] = r.raised]
           /\ log' = log \o r.log
                         \o (IF r.raised THEN <<"Error during TF-IDF calculation">> ELSE <<>>)
    /\ runs' = [runs EXCEPT !["tfidf"] = @ + 1]
    /\ pc' = "done"
    /\ UNCHANGED <<api, query, top_n, prior_file, results_file, index_file, common_words>>
    /\ UNCHANGED clean_vars

Next == SearchStep \/ IndexStep \/ TfidfStep

Spec == Init /\ [][Next]_vars


----------------------------------------------------------------------------
(* What the claims speak of *)

\* the normalized token sequence of a document as it was supplied
NormalizedTokens(doc) == split(clean_text(doc.Title \o SP \o doc.Body))

\* the concatenated normalized corpus stream the ranker counts
CorpusStream == split(clean_text(all_text(read_excel(results_file))))

Freq(stream, w) == Cardinality({k \in 1..Len(stream) : stream[k] = w})

FirstPos(stream, w) == CHOOSE k \in 1..Len(stream) :
                           stream[k] = w /\ \A j \in 1..(k - 1) : stream[j] # w

\* a ranks before b: more frequent, or equally frequent and first seen earlier
RanksBefore(stream, a, b) ==
    \/ Freq(stream, a) > Freq(stream, b)
    \/ Freq(stream, a) = Freq(stream, b) /\ FirstPos(stream, a) < FirstPos(stream, b)

Min(a, b) == IF a < b THEN a ELSE b

IndexBuilt == pc \in {"tfidf", "done"} /\ ~raised["index"]

CorpusRows == results_file.rows

QueryTerms == split(clean_text(query))

InSomeDocument(term) ==
    \E d \in 1..Len(CorpusRows) : term \in Range(NormalizedTokens(CorpusRows[d]))

StrictlyAscending(seq) == \A k \in 1..(Len(seq) - 1) : seq[k] < seq[k + 1]

\* C1: every posting list of the exposed index is the duplicate-free ascending
\* list of exactly the ids of the documents whose normalized title+body text
\* contains the term
C1_PostingListsExact ==
    IndexBuilt =>
        \A k \in 1..Len(index_file.rows) :
            LET e == index_file.rows[k]
            IN  /\ StrictlyAscending(e.posts)
                /\ Range(e.posts) =
                       {d \in 1..Len(CorpusRows) : e.word \in Range(NormalizedTokens(CorpusRows[d]))}

\* C2: the selected vocabulary is the first min(K, distinct) distinct tokens of
\* the corpus stream by descending frequency, ties by first occurrence
C2_TopKByFrequencyStable ==
    IndexBuilt =>
        LET stream == CorpusStream
            cw == common_words
            chosen == {cw[k].word : k \in 1..Len(cw)}
        IN  /\ Len(cw) = Min(top_n, Cardinality(Range(stream)))
            /\ Cardinality(chosen) = Len(cw)
            /\ \A k \in 1..Len(cw) :
                   cw[k].word \in Range(stream) /\ cw[k].count = Freq(stream, cw[k].word)
            /\ \A k \in 1..(Len(cw) - 1) :
                   /\ cw[k].count >= cw[k + 1].count
                   /\ RanksBefore(stream, cw[k].word, cw[k + 1].word)
            /\ \A t \in Range(stream) \ chosen : \A k \in 1..Len(cw) :
                   /\ Freq(stream, t) <= cw[k].count
                   /\ RanksBefore(stream, cw[k].word, t)
            /\ (Cardinality(Range(stream)) < top_n => chosen = Range(stream))

\* a run where the top-K cut drops a token, two chosen tokens tie, and the
\* frequency order differs from the order of first occurrence
C2_Witness ==
    /\ IndexBuilt
    /\ Len(common_words) = top_n
    /\ Cardinality(Range(CorpusStream)) > top_n
    /\ \E k \in 1..(Len(common_words) - 1) : common_words[k].count = common_words[k + 1].count
    /\ common_words[1].word # CorpusStream[1]

\* C3: every query term that occurs in some document's normalized tokens is
\* reported found, with the sum of its weights over all documents as score
C3_TermsOfCorpusAreFound ==
    (pc = "done" /\ ~raised["tfidf"]) =>
        \A j \in 1..Len(QueryTerms) :
            InSomeDocument(QueryTerms[j]) =>
                /\ j \in DOMAIN tfidf_out
                /\ tfidf_out[j].found
                /\ tfidf_out[j].score = ColumnSum(tfidf_state.matrix, QueryTerms[j])

\* C4: on a non-empty corpus there is one result per normalized query term, in
\* query order, and a term of no document is reported not found
C4_AbsentTermsNotFound ==
    (pc = "done" /\ results_file.exists /\ CorpusRows # <<>>) =>
        /\ ~raised["tfidf"]
        /\ Len(tfidf_out) = Len(QueryTerms)
        /\ \A j \in 1..Len(QueryTerms) :
               /\ j \in DOMAIN tfidf_out
               /\ tfidf_out[j].term = QueryTerms[j]
               /\ (~InSomeDocument(QueryTerms[j]) => ~tfidf_out[j].found)

\* C5: on an empty corpus the index step yields an empty index and the TF-IDF
\* step does not raise and reports every query term not found
C5_EmptyCorpusIsNoError ==
    (pc = "done" /\ results_file.exists /\ CorpusRows = <<>>) =>
        /\ ~raised["index"]
        /\ index_file.exists /\ index_file.rows = <<>>
        /\ ~raised["tfidf"]
        /\ Len(tfidf_out) = Len(QueryTerms)
        /\ \A j \in 1..Len(tfidf_out) : ~tfidf_out[j].found

\* the example corpus, every title and every body non-empty
ExampleRun ==
    /\ IndexBuilt
    /\ top_n = 2
    /\ \E c \in ExampleCuts : c < 3 /\ CorpusRows = ExampleCorpus(c)

C7_IndexKeysAreTopK ==
    IndexBuilt =>
        /\ Len(index_file.rows) = Len(common_words)
        /\ \A k \in 1..Len(common_words) :
               /\ index_file.rows[k].word = common_words[k].word
               /\ index_file.rows[k].posts # <<>>
        /\ \A j, k \in 1..Len(index_file.rows) :
               index_file.rows[j].word = index_file.rows[k].word => j = k

\* a run whose top-K leaves some token of the corpus out of the index
C7_Witness ==
    /\ IndexBuilt
    /\ Len(index_file.rows) >= 2
    /\ Cardinality(Range(CorpusStream)) > Len(index_file.rows)

\* the number of documents whose analyzed text holds the term
DocFreq(term) ==
    LET df == read_excel(results_file)
    IN  Cardinality({i \in 1..Len(df) : term \in Range(analyze(clean_text(Content(df[i]))))})

\* C9: every weight is >= 0; IDF does not increase with the number of
\* documents containing the term; a term of every document has the least
\* (non-negative) IDF and a term of exactly one document the greatest
C9_WeightsNonNegativeIdfMonotone ==
    tfidf_state.fitted =>
        LET terms == tfidf_state.terms
            n == Len(CorpusRows)
        IN  /\ \A i \in 1..Len(tfidf_state.matrix) : \A t \in terms :
                   tfidf_state.matrix[i][t] >= 0
            /\ \A t, u \in terms :
                   DocFreq(t) <= DocFreq(u) => tfidf_state.idf[t] >= tfidf_state.idf[u]
            /\ \A t \in terms :
                   /\ tfidf_state.idf[t] >= 0
                   /\ (DocFreq(t) = n => \A u \in terms : tfidf_state.idf[t] <= tfidf_state.idf[u])
                   /\ (DocFreq(t) = 1 => \A u \in terms : tfidf_state.idf[t] >= tfidf_state.idf[u])

\* a fitted run with a term of every document and a term of one document only
C9_Witness ==
    /\ tfidf_state.fitted
    /\ Len(CorpusRows) >= 2
    /\ \E t, u \in tfidf_state.terms :
           /\ DocFreq(t) = Len(CorpusRows)
           /\ DocFreq(u) = 1
           /\ tfidf_state.idf[t] < tfidf_state.idf[u]
    /\ \E i \in 1..Len(tfidf_state.matrix) : \E t \in tfidf_state.terms :
           tfidf_state.matrix[i][t] > 0

Contains(seq, x) == \E k \in 1..Len(seq) : seq[k] = x

\* x and then, right after it, y
ContainsPair(seq, x, y) == \E k \in 1..(Len(seq) - 1) : seq[k] = x /\ seq[k + 1] = y

\* C10: the three steps run once each in the order search, index, TF-IDF; an
\* exception of a step is logged by the step, then by main, and the later
\* steps still run; a search with zero posts raises nothing and leaves the
\* results file as it was, so the later steps read the file of before the run
C10_StepsRunOnceInOrder ==
    /\ pc \in {"search", "index", "tfidf", "done"}
    /\ runs["search"] = (IF pc = "search" THEN 0 ELSE 1)
    /\ runs["index"] = (IF pc \in {"search", "index"} THEN 0 ELSE 1)
    /\ runs["tfidf"] = (IF pc = "done" THEN 1 ELSE 0)
    /\ (raised["search"] <=>
            ContainsPair(log, "An error occurred", "Error during Reddit search"))
    /\ (raised["index"] <=>
            ContainsPair(log, "An error occurred while building the inverted index",
                              "Error during inverted index creation"))
    /\ (raised["tfidf"] <=>
            ContainsPair(log, "An error occurred while calculating TF-IDF",
                              "Error during TF-IDF calculation"))
    /\ (raised["search"] => results_file = prior_file)
    /\ ((pc # "search" /\ ~api.raises /\ api.posts = <<>>) =>
            /\ ~raised["search"]
            /\ Contains(log, "No results found")
            /\ results_file = prior_file
            /\ (pc \in {"tfidf", "done"} =>
                    /\ raised["index"] = ~prior_file.exists
                    /\ (prior_file.exists =>
                            index_file.rows =
                                build_inverse_index_with_locations(prior_file, top_n).rows))
            /\ (pc = "done" => tfidf_out = calculate_tfidf(prior_file, query).out))

\* a finished run whose search found nothing, whose later steps read the
\* earlier file, and one of whose steps raised
C10_Witness ==
    /\ pc = "done"
    /\ ~api.raises /\ api.posts = <<>>
    /\ prior_file.exists /\ prior_file.rows # <<>>
    /\ index_file.rows # <<>>
    /\ tfidf_out # <<>>

C10_WitnessRaise ==
    /\ pc = "done"
    /\ raised["search"] /\ raised["index"] /\ raised["tfidf"]

----------------------------------------------------------------------------
(* The normalizer harness: clean_text applied once, then to its own output *)

CleanChars == {"a", "b", "A", "i", "I_DOT", " ", "!", "n"}

RECURSIVE TextsUpTo(_)
TextsUpTo(n) ==
    IF n = 0 THEN {<<>>}
    ELSE LET shorter == TextsUpTo(n - 1)
         IN  shorter \cup {Append(t, c) : t \in {u \in shorter : Len(u) = n - 1}, c \in CleanChars}

IdleText == <<>>

PipelineIdle ==
    /\ pc = "off"
    /\ api = [raises |-> FALSE, posts |-> <<>>]
    /\ query = <<>>
    /\ top_n = 0
    /\ results_file = NoFile
    /\ prior_file = NoFile
    /\ index_file = NoFile
    /\ common_words = <<>>
    /\ tfidf_state = NotFitted
    /\ tfidf_out = <<>>
    /\ raised = [s \in Steps |-> FALSE]
    /\ runs = [s \in Steps |-> 0]
    /\ log = <<>>

InitClean ==
    /\ PipelineIdle
    /\ cpc = "in"
    /\ text_in \in TextsUpTo(MaxLen)
    /\ text_once = IdleText
    /\ text_twice = IdleText

CleanOnce ==
    /\ cpc = "in"
    /\ text_once' = clean_text(text_in)
    /\ cpc' = "once"
    /\ UNCHANGED <<text_in, text_twice>>
    /\ UNCHANGED pipeline_vars

CleanTwice ==
    /\ cpc = "once"
    /\ text_twice' = clean_text(text_once)
    /\ cpc' = "twice"
    /\ UNCHANGED <<text_in, text_once>>
    /\ UNCHANGED pipeline_vars

NextClean == CleanOnce \/ CleanTwice

SpecClean == InitClean /\ [][NextClean]_vars

\* C8: clean_text is idempotent: clean_text(clean_text(s)) = clean_text(s) for every text s
C8_CleanTextIdempotent == cpc = "twice" => text_twice = text_once

====
